---- MODULE Spec2Model ----
(***************************************************************************)
(* Encrypted local persistence layer of the RAM acquisition tool:          *)
(* EncryptedJsonStore (core/secure_store.py), the two domain stores built  *)
(* on it (core/storage.py, core/user_store.py) and AuthService             *)
(* (core/auth.py).                                                         *)
(*                                                                         *)
(* Three specifications share the variables:                               *)
(*   Spec          one EncryptedJsonStore, sequential read / write calls   *)
(*   SpecAuth      one AuthService over one EncryptedUserStore             *)
(*   SpecEvidence  one EvidenceStore with concurrent add_image callers     *)
(***************************************************************************)
EXTENDS Integers, Sequences, FiniteSets, TLC

VARIABLES
    file,      \* content of the store's backing file (self._file_path)
    last,      \* record of the last completed call: arguments, file before, result
    records,   \* AuthService._records: insertion-ordered sequence of user records
    phase,     \* "new" before the service / store is constructed, "ready" after
    uuidCtr,   \* number of uuid4() identifiers handed out so far
    lock,      \* EvidenceStore._lock: 0 when free, else the caller holding it
    pc,        \* per caller: position inside add_image
    raw,       \* per caller: text returned by read_text inside read
    data,      \* per caller: list returned by _read inside add_image
    keyfile,   \* content of the key file (SecretKeyManager._key_path)
    hist       \* history of the run: what the calls made so far stored

vars == <<file, last, records, phase, uuidCtr, lock, pc, raw, data, keyfile, hist>>

(***************************************************************************)
(* Bounds of the model.                                                    *)
(***************************************************************************)
MaxIv == 2        \* distinct initialisation vectors the cipher may draw
MaxSalt == 2      \* distinct salts secrets.token_bytes may draw
MaxUuid == 1      \* uuid4() identifiers available to brand-new usernames
NCallers == 2     \* concurrent add_image callers

IVs == 1..MaxIv
Salts == 1..MaxSalt

(***************************************************************************)
(* Keys.  StoreKey is the key the store instance was constructed with      *)
(* (self._key); ForeignKey is any other 32-byte key.                       *)
(***************************************************************************)
StoreKey == "key_of_store"
ForeignKey == "key_of_another_store"

(***************************************************************************)
(* Python values.  A document is a tagged record: None, a list, a tuple    *)
(* (a Python value that is not a JSON value) or a dict whose keys are the  *)
(* record's fields other than t.                                           *)
(***************************************************************************)
PyNone == [t |-> "null"]
PyList(s) == [t |-> "list", items |-> s]
PyTuple(s) == [t |-> "tuple", items |-> s]
UsersDoc(s) == [t |-> "dict", users |-> s]
EnvelopeDict(i, c) == [t |-> "dict", iv |-> i, ciphertext |-> c]

IsJsonValue(v) == v.t \in {"null", "list", "dict"}

HasKey(v, k) == v.t = "dict" /\ k \in DOMAIN v

(***************************************************************************)
(* File contents: no file, bytes that are not UTF-8, or a text that is     *)
(* whitespace only, not JSON, or the JSON text of a value.                 *)
(***************************************************************************)
Absent == [kind |-> "absent"]
BadBytes == [kind |-> "bytes"]
BlankText == [kind |-> "text", form |-> "blank"]
NotJsonText == [kind |-> "text", form |-> "notjson"]
JsonText(v) == [kind |-> "text", form |-> "json", val |-> v]

(***************************************************************************)
(* json.dumps(value, indent=2, default=str) and json.loads.  dumps writes  *)
(* a tuple as a JSON array, so loads gives a list back for it.             *)
(***************************************************************************)
json_dumps(v) ==
    JsonText(IF v.t = "tuple" THEN PyList(v.items) ELSE v)

json_loads(text) ==
    IF text.form = "json" THEN [ok |-> TRUE, val |-> text.val]
    ELSE [ok |-> FALSE]

(***************************************************************************)
(* str.encode("utf-8") / bytes.decode("utf-8") and base64.                 *)
(***************************************************************************)
utf8_encode(s) == [utf8 |-> s]
utf8_decode(b) ==
    IF "utf8" \in DOMAIN b THEN [ok |-> TRUE, val |-> b.utf8] ELSE [ok |-> FALSE]

PyStr(s) == [str |-> s]

b64encode(b) == [b64 |-> b]
b64decode(s) ==
    IF "b64" \in DOMAIN s THEN [ok |-> TRUE, val |-> s.b64] ELSE [ok |-> FALSE]

(***************************************************************************)
(* The cipher of core/crypto.py: symbolic AES-256.  A ciphertext records   *)
(* the key and IV it was made with; decryption gives the plaintext back    *)
(* exactly for that key and IV on an undamaged ciphertext, and garbage     *)
(* bytes (or a padding error) otherwise.                                   *)
(***************************************************************************)
Garbage == [junk |-> TRUE]
DamagedCiphertext == [key |-> "none", iv |-> 0, plain |-> Garbage]

aes256_encrypt(plaintext, key, iv) ==
    <<iv, [key |-> key, iv |-> iv, plain |-> plaintext]>>

aes256_decrypt(iv, ciphertext, key) ==
    IF ciphertext.key = key /\ ciphertext.iv = iv THEN ciphertext.plain
    ELSE Garbage

(***************************************************************************)
(* EncryptedJsonStore.write: the new file content.  iv is the IV the       *)
(* cipher draws for this call.                                             *)
(***************************************************************************)
JsonStore_write_stale_iv(value, key, iv) ==
    LET payload == json_dumps(value)
        enc == aes256_encrypt(utf8_encode(payload), key, iv)
        envelope == EnvelopeDict(b64encode(0), b64encode(enc[2]))
    IN  json_dumps(envelope)

JsonStore_write(value, key, iv) ==
    LET payload == json_dumps(value)
        enc == aes256_encrypt(utf8_encode(payload), key, iv)
        envelope == EnvelopeDict(b64encode(enc[1]), b64encode(enc[2]))
    IN  json_dumps(envelope)

(***************************************************************************)
(* The try block of EncryptedJsonStore.read (lines 45-51): ok with the     *)
(* decrypted document, or not ok when any step raises.                     *)
(***************************************************************************)
Raised == [ok |-> FALSE]

EncryptedPath(rawtext, key) ==
    LET envelope == json_loads(rawtext) IN
    IF ~envelope.ok THEN Raised
    ELSE IF ~HasKey(envelope.val, "iv") \/ ~HasKey(envelope.val, "ciphertext")
    THEN Raised
    ELSE
      LET iv == b64decode(envelope.val.iv)
          ciphertext == b64decode(envelope.val.ciphertext)
      IN
      IF ~iv.ok \/ ~ciphertext.ok THEN Raised
      ELSE
        LET plaintext == utf8_decode(aes256_decrypt(iv.val, ciphertext.val, key)) IN
        IF ~plaintext.ok THEN Raised
        ELSE json_loads(plaintext.val)

(***************************************************************************)
(* EncryptedJsonStore.read on file content f: the outcome (a returned      *)
(* value or a raised exception), the path taken and the file afterwards.   *)
(* iv is the IV a migration write would draw.                              *)
(***************************************************************************)
Returns(v, p, f) == [raised |-> FALSE, value |-> v, path |-> p, file |-> f]
Raises(e, f) == [raised |-> TRUE, exc |-> e, path |-> "raise", file |-> f]

ParseRaw(rawtext, f, key, default, iv) ==
    IF rawtext.form = "blank" THEN Returns(default, "default", f)
    ELSE
      LET enc == EncryptedPath(rawtext, key) IN
      IF enc.ok THEN Returns(enc.val, "encrypted", f)
      ELSE
        LET legacy == json_loads(rawtext) IN
        IF ~legacy.ok THEN Returns(default, "default", f)
        ELSE Returns(legacy.val, "legacy", JsonStore_write(legacy.val, key, iv))

JsonStore_read_no_upgrade(f, key, default, iv) ==
    LET r == IF f.kind = "absent" THEN Returns(default, "default", f)
             ELSE IF f.kind = "bytes" THEN Raises("UnicodeDecodeError", f)
             ELSE ParseRaw(f, f, key, default, iv)
    IN  [r EXCEPT !.file = f]

JsonStore_read_creates_file(f, key, default, iv) ==
    IF f.kind = "absent"
    THEN Returns(default, "default", JsonStore_write(default, key, iv))
    ELSE IF f.kind = "bytes" THEN Raises("UnicodeDecodeError", f)
    ELSE ParseRaw(f, f, key, default, iv)

JsonStore_read(f, key, default, iv) ==
    IF f.kind = "absent" THEN Returns(default, "default", f)
    ELSE IF f.kind = "bytes" THEN Raises("UnicodeDecodeError", f)
    ELSE ParseRaw(f, f, key, default, iv)

(***************************************************************************)
(* Specification Spec: one EncryptedJsonStore with key StoreKey.           *)
(***************************************************************************)
Docs ==
    { PyNone, PyList(<<>>), PyList(<<"a">>), PyTuple(<<"a">>),
      UsersDoc(<<>>),
      EnvelopeDict(PyStr("abc"), PyStr("abc")) }

JsonDocs == { d \in Docs : IsJsonValue(d) }

Defaults == { PyList(<<>>), UsersDoc(<<>>) }

Envelope(d, key, iv) == JsonStore_write(d, key, iv)

DamagedEnvelope ==
    JsonText(EnvelopeDict(b64encode(1), b64encode(DamagedCiphertext)))

NotJsonInside(key, iv) ==
    JsonText(EnvelopeDict(b64encode(iv),
        b64encode(aes256_encrypt(utf8_encode(NotJsonText), key, iv)[2])))

InitialFiles ==
    { Absent, BadBytes, BlankText, NotJsonText, DamagedEnvelope }
    \cup { JsonText(d) : d \in JsonDocs }
    \cup { Envelope(d, k, 1) : d \in JsonDocs, k \in {StoreKey, ForeignKey} }
    \cup { NotJsonInside(StoreKey, 1) }

NoCall == [op |-> "none"]

AuthIdle ==
    /\ records = <<>>
    /\ phase = "store"
    /\ uuidCtr = 0

EvidenceIdle ==
    /\ lock = 0
    /\ pc = <<>>
    /\ raw = <<>>
    /\ data = <<>>

\* the key length load_key requires, in bytes
KeyLength == 32

\* a key file of n bytes; b names the byte string
KeyFile(n, b) == [kind |-> "key", len |-> n, bytes |-> b]

\* the key file holds the store's 32-byte key and no history is kept
KeyLoaded ==
    /\ keyfile = KeyFile(KeyLength, StoreKey)
    /\ hist = <<>>

Init ==
    /\ file \in InitialFiles
    /\ last = NoCall
    /\ AuthIdle
    /\ EvidenceIdle
    /\ KeyLoaded

(***************************************************************************)
(* What the call before this one did: the document it wrote or returned.   *)
(***************************************************************************)
Prev ==
    IF last.op = "write" THEN [op |-> "write", doc |-> last.arg, path |-> "write"]
    ELSE IF last.op = "read" /\ ~last.out.raised
    THEN [op |-> "read", doc |-> last.out.value, path |-> last.out.path]
    ELSE [op |-> "none"]

Read(default, iv) ==
    LET r == JsonStore_read(file, StoreKey, default, iv) IN
    /\ file' = r.file
    /\ last' = [op |-> "read", arg |-> default, before |-> file,
                out |-> [x \in DOMAIN r \ {"file"} |-> r[x]],
                prev |-> Prev]
    /\ UNCHANGED <<keyfile, hist, records, phase, uuidCtr, lock, pc, raw, data>>

Write(d, iv) ==
    /\ file' = JsonStore_write(d, StoreKey, iv)
    /\ last' = [op |-> "write", arg |-> d, before |-> file]
    /\ UNCHANGED <<keyfile, hist, records, phase, uuidCtr, lock, pc, raw, data>>

Next ==
    \/ \E default \in Defaults, iv \in IVs : Read(default, iv)
    \/ \E d \in Docs, iv \in IVs : Write(d, iv)

Spec == Init /\ [][Next]_vars

(***************************************************************************)
(* Properties of EncryptedJsonStore, checked under Spec.                   *)
(***************************************************************************)
IsJsonFile(f) == f.kind = "text" /\ f.form = "json"

WellFormedEnvelope(f) ==
    /\ IsJsonFile(f)
    /\ HasKey(f.val, "iv") /\ HasKey(f.val, "ciphertext")
    /\ b64decode(f.val.iv).ok /\ b64decode(f.val.ciphertext).ok

Decrypts(f) == IsJsonFile(f) /\ EncryptedPath(f, StoreKey).ok

LegacyFile(f) == IsJsonFile(f) /\ ~EncryptedPath(f, StoreKey).ok

ReadDone == last.op = "read"

ReturnedDefault ==
    /\ ~last.out.raised
    /\ last.out.value = last.arg
    /\ last.out.path = "default"

\* C3: a read of a well-formed envelope that the store's key cannot decrypt
\* and parse returns the caller's default (the legacy fallback fails too).
C3_UndecryptableEnvelopeYieldsDefault ==
    (ReadDone /\ WellFormedEnvelope(last.before) /\ ~Decrypts(last.before))
        => ReturnedDefault

\* C4: read never raises, whatever the file contains: it returns the
\* decrypted document, the legacy document or the default.
C4_ReadNeverRaises ==
    ReadDone =>
        /\ ~last.out.raised
        /\ last.out.path \in {"encrypted", "legacy", "default"}

\* C5: the first read of a legacy plaintext JSON document d returns d and
\* leaves the file as an envelope that decrypts to d under the store's key;
\* a read that follows a read which returned a stored document returns the
\* same document through the encrypted path and leaves the file as it is.
C5_LegacyMigratesOnce ==
    ReadDone =>
        /\ LegacyFile(last.before) =>
              /\ ~last.out.raised
              /\ last.out.path = "legacy"
              /\ last.out.value = last.before.val
              /\ file # last.before
              /\ WellFormedEnvelope(file)
              /\ EncryptedPath(file, StoreKey) = [ok |-> TRUE, val |-> last.before.val]
        /\ (last.prev.op = "read" /\ last.prev.path \in {"legacy", "encrypted"}) =>
              /\ ~last.out.raised
              /\ last.out.path = "encrypted"
              /\ last.out.value = last.prev.doc
              /\ file = last.before

C5_Witness ==
    /\ ReadDone
    /\ last.prev.op = "read" /\ last.prev.path = "legacy"
    /\ last.prev.doc = PyList(<<"a">>)
    /\ ~last.out.raised /\ last.out.path = "encrypted"

\* C6: write(d) of a JSON document d followed by read(default) on the same
\* store returns a document equal to d, whatever the file held before.
C6_ReadAfterWrite ==
    (ReadDone /\ last.prev.op = "write" /\ IsJsonValue(last.prev.doc)) =>
        /\ ~last.out.raised
        /\ last.out.value = last.prev.doc

C6_Witness ==
    /\ ReadDone
    /\ last.prev.op = "write" /\ last.prev.doc = UsersDoc(<<>>)
    /\ last.arg # last.prev.doc
    /\ ~last.out.raised /\ last.out.value = UsersDoc(<<>>)

\* C7: read on an absent or whitespace-only file returns the default and
\* leaves the filesystem as it was (absent stays absent, whitespace stays).
C7_UninitialisedReadIsPure ==
    (ReadDone /\ last.before \in {Absent, BlankText}) =>
        /\ ReturnedDefault
        /\ file = last.before

C7_Witness ==
    /\ ReadDone
    /\ last.before = Absent
    /\ file = Absent
    /\ ~last.out.raised /\ last.out.value = last.arg

(***************************************************************************)
(* EncryptedUserStore (core/user_store.py) over the store's file.          *)
(***************************************************************************)
UserStore_save_users_first_only(users, iv) ==
    JsonStore_write(UsersDoc(IF users = <<>> THEN <<>> ELSE <<Head(users)>>),
                    StoreKey, iv)

UserStore_save_users(users, iv) ==
    JsonStore_write(UsersDoc(users), StoreKey, iv)

UserStore_list_users(f, iv) ==
    LET r == JsonStore_read(f, StoreKey, UsersDoc(<<>>), iv) IN
    IF r.raised THEN r
    ELSE IF r.value.t # "dict" THEN Raises("AttributeError", r.file)
    ELSE Returns(IF "users" \in DOMAIN r.value THEN r.value.users ELSE <<>>,
                 r.path, r.file)

UserStore_init(f, iv) ==
    IF f.kind = "absent" THEN JsonStore_write(UsersDoc(<<>>), StoreKey, iv) ELSE f

(***************************************************************************)
(* AuthService._records is a dict keyed by username: a sequence of records *)
(* in insertion order with no username twice.                              *)
(***************************************************************************)
Has(recs, u) == \E i \in 1..Len(recs) : recs[i].username = u

IndexOf(recs, u) == CHOOSE i \in 1..Len(recs) : recs[i].username = u

Get(recs, u) == recs[IndexOf(recs, u)]

DictSet(recs, rec) ==
    IF Has(recs, rec.username)
    THEN [recs EXCEPT ![IndexOf(recs, rec.username)] = rec]
    ELSE Append(recs, rec)

DictDel(recs, u) == SelectSeq(recs, LAMBDA r : r.username # u)

(***************************************************************************)
(* Inputs of the AuthService calls.                                        *)
(***************************************************************************)
NoPassword == "<None>"     \* password=None, the parameter's default

Falsy(s) == s \in {NoPassword, ""}

strip(u) ==
    CASE u = " bob " -> "bob"
      [] u = "  "    -> ""
      [] OTHER       -> u

lower(r) ==
    CASE r = "Admin"        -> "admin"
      [] r = "Investigator" -> "investigator"
      [] r = "Viewer"       -> "viewer"
      [] OTHER              -> r

Usernames == {"admin", "investigator", "bob", "root"}
UpsertUsernames == {"admin", " bob ", "  "}
\* (name, role, full_access) of an upsert_user call
UpsertProfiles ==
    { <<"", "Admin", FALSE>>, <<"Al", "Viewer", TRUE>> }
UpsertPasswords == {NoPassword, "pw"}
LoginUsernames == {"admin", "bob"}
LoginPasswords == {"admin123", "pw"}

(***************************************************************************)
(* _hash_password: sha256(salt + password).hexdigest(), collision free.    *)
(***************************************************************************)
hash_password(password, salt) == [sha256 |-> <<salt, password>>]

compare_digest_always_true(a, b) == TRUE

compare_digest(a, b) == a = b

create_user_record(username, name, role, password, user_id, full_access, salt) ==
    [ username |-> username, name |-> name, role |-> role, user_id |-> user_id,
      salt |-> b64encode(salt),
      password_hash |-> hash_password(password, salt),
      full_access |-> full_access ]

IsAdmin(rec) == lower(rec.role) = "admin"

admin_count(recs) == Cardinality({ i \in 1..Len(recs) : IsAdmin(recs[i]) })

RECURSIVE load_users_from(_, _)
load_users_from(entries, users) ==
    IF entries = <<>> THEN users
    ELSE LET entry == Head(entries) IN
         IF "username" \notin DOMAIN entry \/ entry.username = ""
         THEN load_users_from(Tail(entries), users)
         ELSE load_users_from(Tail(entries), DictSet(users, entry))

load_users(entries) == load_users_from(entries, <<>>)

seed_defaults_admin_only(s1, s2) ==
    << create_user_record("admin", "Administrator", "Admin", "admin123",
                          [fixed |-> "u_admin"], TRUE, s1) >>

seed_defaults(s1, s2) ==
    << create_user_record("admin", "Administrator", "Admin", "admin123",
                          [fixed |-> "u_admin"], TRUE, s1),
       create_user_record("investigator", "Investigator", "Investigator",
                          "invest123", [fixed |-> "u_inv"], FALSE, s2) >>

(***************************************************************************)
(* AuthService.authenticate: the returned User, or None.                   *)
(***************************************************************************)
AuthNone == [t |-> "null"]

User(rec) == [t |-> "User", user_id |-> rec.user_id, name |-> rec.name,
              role |-> rec.role]

authenticate(recs, username, password) ==
    IF ~Has(recs, username) THEN AuthNone
    ELSE
      LET record == Get(recs, username)
          salt == b64decode(record.salt).val
          computed_hash == hash_password(password, salt)
      IN  IF ~compare_digest(record.password_hash, computed_hash) THEN AuthNone
          ELSE User(record)

\* the steps one authenticate call executes before it returns, in order
authenticate_steps(recs, username, password) ==
    IF ~Has(recs, username) THEN <<"get">>
    ELSE <<"get", "b64decode", "hash_password", "compare_digest">>

(***************************************************************************)
(* AuthService.upsert_user and delete_user: the exception raised, or the   *)
(* new in-memory records, which _persist then saves.  salt and uuid are    *)
(* the values secrets.token_bytes and uuid4 draw in this call.             *)
(***************************************************************************)
Failed(e, recs) == [raised |-> TRUE, exc |-> e, records |-> recs]
Done(recs) == [raised |-> FALSE, records |-> recs]

upsert_user_checked_new_id(recs, username, name, role, password, full_access, salt, uuid) ==
      LET new_record ==
            [ username |-> username,
              name |-> IF name = "" THEN username ELSE name,
              role |-> role,
              user_id |-> [uuid4 |-> uuid],
              salt |-> IF ~Falsy(password) THEN b64encode(salt)
                       ELSE b64encode(b64decode(Get(recs, username).salt).val),
              password_hash |-> IF ~Falsy(password) THEN hash_password(password, salt)
                                ELSE Get(recs, username).password_hash,
              full_access |-> full_access ]
      IN  Done(DictSet(recs, new_record))

upsert_user_checked_rehashes(recs, username, name, role, password, full_access, salt, uuid) ==
      LET new_record ==
            [ username |-> username,
              name |-> IF name = "" THEN username ELSE name,
              role |-> role,
              user_id |-> IF Has(recs, username) THEN Get(recs, username).user_id
                          ELSE [uuid4 |-> uuid],
              salt |-> b64encode(salt),
              password_hash |-> hash_password(IF Falsy(password) THEN "" ELSE password,
                                              salt),
              full_access |-> full_access ]
      IN  Done(DictSet(recs, new_record))

\* lines 60-78 of upsert_user, once the username and password checks passed
upsert_user_checked(recs, username, name, role, password, full_access, salt, uuid) ==
      LET new_record ==
            [ username |-> username,
              name |-> IF name = "" THEN username ELSE name,
              role |-> role,
              user_id |-> IF Has(recs, username) THEN Get(recs, username).user_id
                          ELSE [uuid4 |-> uuid],
              salt |-> IF ~Falsy(password) THEN b64encode(salt)
                       ELSE b64encode(b64decode(Get(recs, username).salt).val),
              password_hash |-> IF ~Falsy(password) THEN hash_password(password, salt)
                                ELSE Get(recs, username).password_hash,
              full_access |-> full_access ]
      IN  Done(DictSet(recs, new_record))

upsert_user_partial(recs, username0, name, role, password, full_access, salt, uuid) ==
    LET username == strip(username0) IN
    IF username = "" THEN Failed("Username is required.", recs)
    ELSE IF ~Has(recs, username) /\ Falsy(password)
    THEN Failed("Password is required for new users.",
                Append(recs, create_user_record(username, name, role, "",
                                                [uuid4 |-> uuid], full_access, salt)))
    ELSE upsert_user_checked(recs, username, name, role, password,
                             full_access, salt, uuid)

upsert_user(recs, username0, name, role, password, full_access, salt, uuid) ==
    LET username == strip(username0) IN
    IF username = "" THEN Failed("Username is required.", recs)
    ELSE IF ~Has(recs, username) /\ Falsy(password)
    THEN Failed("Password is required for new users.", recs)
    ELSE upsert_user_checked(recs, username, name, role, password,
                             full_access, salt, uuid)



delete_user_counts_all(recs, username) ==
    IF ~Has(recs, username) THEN Failed("User does not exist.", recs)
    ELSE IF Len(recs) <= 1
    THEN Failed("At least one admin account must remain.", recs)
    ELSE Done(DictDel(recs, username))

delete_user(recs, username) ==
    IF ~Has(recs, username) THEN Failed("User does not exist.", recs)
    ELSE IF IsAdmin(Get(recs, username)) /\ admin_count(recs) <= 1
    THEN Failed("At least one admin account must remain.", recs)
    ELSE Done(DictDel(recs, username))

(***************************************************************************)
(* Specification SpecAuth: one AuthService over one EncryptedUserStore.    *)
(***************************************************************************)
TwoAdmins ==
    << create_user_record("root", "Root", "Admin", "pw", [fixed |-> "u_root"], TRUE, 1),
       create_user_record("admin", "Administrator", "Admin", "admin123",
                          [fixed |-> "u_admin"], TRUE, 1) >>

AuthInitialFiles ==
    { Absent, BlankText,
      JsonText(UsersDoc(TwoAdmins)),
      Envelope(UsersDoc(<<>>), StoreKey, 1),
      Envelope(UsersDoc(TwoAdmins), StoreKey, 1) }

InitAuth ==
    /\ file \in AuthInitialFiles
    /\ last = NoCall
    /\ records = <<>>
    /\ phase = "new"
    /\ uuidCtr = 0
    /\ EvidenceIdle
    /\ KeyLoaded

Ready == phase \in {"seeded", "loaded"}

PersistedUsers == UserStore_list_users(file, 1)

\* EncryptedUserStore.__init__ followed by AuthService.__init__
AuthConstruct(iv, s1, s2) ==
    /\ phase = "new"
    /\ LET f0 == UserStore_init(file, iv)
           l1 == UserStore_list_users(f0, iv)
       IN  IF l1.raised
           THEN /\ file' = l1.file
                /\ records' = <<>>
                /\ phase' = "failed"
           ELSE IF load_users(l1.value) # <<>>
           THEN /\ file' = l1.file
                /\ records' = load_users(l1.value)
                /\ phase' = "loaded"
           ELSE LET f2 == UserStore_save_users(seed_defaults(s1, s2), iv) IN
                /\ file' = f2
                /\ records' = load_users(UserStore_list_users(f2, iv).value)
                /\ phase' = "seeded"
    /\ last' = [op |-> "construct"]
    /\ UNCHANGED <<keyfile, hist, uuidCtr, lock, pc, raw, data>>

Authenticate(username, password) ==
    /\ Ready
    /\ last' = [op |-> "authenticate", username |-> username,
                password |-> password,
                out |-> authenticate(records, username, password),
                steps |-> authenticate_steps(records, username, password)]
    /\ UNCHANGED <<keyfile, hist, file, records, phase, uuidCtr, lock, pc, raw, data>>

UpsertUser_no_persist(username, name, role, password, full_access, salt, iv) ==
    /\ Ready
    /\ Has(records, strip(username)) \/ Falsy(password) \/ strip(username) = ""
          \/ uuidCtr < MaxUuid
    /\ LET r == upsert_user(records, username, name, role, password,
                            full_access, salt, uuidCtr + 1)
           fresh == ~r.raised /\ ~Has(records, strip(username))
       IN  /\ records' = r.records
           /\ file' = file
           /\ uuidCtr' = IF fresh THEN uuidCtr + 1 ELSE uuidCtr
           /\ last' = [op |-> "upsert", raised |-> r.raised,
                       exc |-> IF r.raised THEN r.exc ELSE ""]
    /\ UNCHANGED <<keyfile, phase, lock, pc, raw, data>>

UpsertUser(username, name, role, password, full_access, salt, iv) ==
    /\ Ready
    /\ Has(records, strip(username)) \/ Falsy(password) \/ strip(username) = ""
          \/ uuidCtr < MaxUuid
    /\ LET r == upsert_user(records, username, name, role, password,
                            full_access, salt, uuidCtr + 1)
           fresh == ~r.raised /\ ~Has(records, strip(username))
       IN  /\ records' = r.records
           /\ file' = IF r.raised THEN file
                      ELSE UserStore_save_users(r.records, iv)
           /\ uuidCtr' = IF fresh THEN uuidCtr + 1 ELSE uuidCtr
           /\ last' = [op |-> "upsert", raised |-> r.raised,
                       exc |-> IF r.raised THEN r.exc ELSE ""]
    /\ UNCHANGED <<keyfile, phase, lock, pc, raw, data>>

DeleteUser(username, iv) ==
    /\ Ready
    /\ LET r == delete_user(records, username) IN
       /\ records' = r.records
       /\ file' = IF r.raised THEN file ELSE UserStore_save_users(r.records, iv)
       /\ last' = [op |-> "delete", username |-> username, raised |-> r.raised]
    /\ UNCHANGED <<keyfile, hist, phase, uuidCtr, lock, pc, raw, data>>

\* the random draws a call makes: a salt only when a password is given, an
\* IV only when the call reaches _persist
SaltsDrawn(password) == IF Falsy(password) THEN {1} ELSE Salts

IVsDrawn(raises) == IF raises THEN {1} ELSE IVs

UpsertRaises(username, password) ==
    upsert_user(records, username, "", "Viewer", password, FALSE, 1, 1).raised

NextAuth ==
    \/ \E iv \in IVs, s1, s2 \in Salts : AuthConstruct(iv, s1, s2)
    \/ \E u \in LoginUsernames, p \in LoginPasswords : Authenticate(u, p)
    \/ \E u \in UpsertUsernames, pr \in UpsertProfiles, p \in UpsertPasswords :
          \E s \in SaltsDrawn(p), iv \in IVsDrawn(UpsertRaises(u, p)) :
            UpsertUser(u, pr[1], pr[2], p, pr[3], s, iv) /\ UNCHANGED hist
    \/ \E u \in Usernames :
          \E iv \in IVsDrawn(delete_user(records, u).raised) : DeleteUser(u, iv)

SpecAuth == InitAuth /\ [][NextAuth]_vars

(***************************************************************************)
(* Specification SpecUpsert: one AuthService, constructed and then given   *)
(* upsert_user calls only; hist keeps the username and the password of     *)
(* the last call as they were passed.                                      *)
(***************************************************************************)
NextUpsert ==
    \/ \E iv \in IVs, s1, s2 \in Salts : AuthConstruct(iv, s1, s2)
    \/ \E u \in UpsertUsernames, pr \in UpsertProfiles, p \in UpsertPasswords :
          \E s \in SaltsDrawn(p), iv \in IVsDrawn(UpsertRaises(u, p)) :
            /\ UpsertUser(u, pr[1], pr[2], p, pr[3], s, iv)
            /\ hist' = [username |-> u, password |-> p]

SpecUpsert == InitAuth /\ [][NextUpsert]_vars

(***************************************************************************)
(* Properties of AuthService, checked under SpecAuth.                      *)
(***************************************************************************)
HasAdminRole(users) == \E i \in 1..Len(users) : users[i].role = "Admin"

Without(users, u) ==
    SelectSeq(users, LAMBDA r : r.username # u)

\* C2: from a freshly seeded AuthService, after any sequence of upsert_user
\* and delete_user calls, the records in memory and the persisted records
\* contain at least one record whose role is Admin.
C2_AdminAlwaysExists ==
    phase = "seeded" =>
        /\ HasAdminRole(records)
        /\ ~PersistedUsers.raised /\ HasAdminRole(PersistedUsers.value)

\* C8: an upsert_user or delete_user call that fails with a domain error
\* leaves the in-memory records and the persisted user sequence exactly as
\* they were before the call (the persisted sequence is the content of the
\* store's file).
C8_FailedCallChangesNothing ==
    [][ (last'.op \in {"upsert", "delete"} /\ last'.raised) =>
            /\ records' = records
            /\ file' = file ]_vars

C8_Witness ==
    /\ last.op = "upsert" /\ last.raised
    /\ last.exc = "Password is required for new users."
    /\ ~Has(records, "bob")
    /\ Len(records) = 2

\* C9: delete_user(u) on an existing username is refused exactly when u is
\* an Admin and the only Admin record; otherwise it succeeds, removes
\* exactly u's record from memory and from disk and leaves every other
\* record unchanged.
C9_DeleteRefusedOnlyForLastAdmin ==
    [][ (last'.op = "delete" /\ Has(records, last'.username)) =>
          LET u == last'.username
              admins == { i \in 1..Len(records) : records[i].role = "Admin" }
              lastAdmin == Get(records, u).role = "Admin" /\ Cardinality(admins) = 1
          IN  /\ last'.raised <=> lastAdmin
              /\ lastAdmin => (records' = records /\ file' = file)
              /\ ~lastAdmin =>
                    /\ records' = Without(records, u)
                    /\ ~PersistedUsers.raised
                    /\ \E iv \in IVs :
                          file' = UserStore_save_users(
                                     Without(PersistedUsers.value, u), iv) ]_vars

C9_Witness ==
    /\ last.op = "delete" /\ ~last.raised
    /\ last.username = "admin"
    /\ ~Has(records, "admin")
    /\ \E i \in 1..Len(records) : records[i].role = "Admin"
    /\ PersistedUsers.value = records

\* C10: authenticate returns the identity (stored id, display name, role) of
\* the record for username exactly when that record exists and the hash of
\* (stored salt, password) equals the stored hash, returns the same negative
\* result for a wrong password and for an unknown username, and changes
\* neither the in-memory records nor the persisted store.
C10_AuthenticateDecidesByHash ==
    [][ last'.op = "authenticate" =>
          LET u == last'.username
              matches == { i \in 1..Len(records) :
                             /\ records[i].username = u
                             /\ records[i].password_hash =
                                  hash_password(last'.password, records[i].salt.b64) }
          IN  /\ records' = records
              /\ file' = file
              /\ matches # {} =>
                    \E i \in matches :
                        last'.out = [t |-> "User", user_id |-> records[i].user_id,
                                     name |-> records[i].name, role |-> records[i].role]
              /\ matches = {} => last'.out = AuthNone ]_vars

\* C11: a failed authenticate call executes the same steps (salt decoding,
\* hash computation, constant-time comparison) whether the username is
\* unknown or the password is wrong
C11_FailurePathsRunSameSteps ==
    (last.op = "authenticate" /\ last.out = AuthNone)
        => last.steps = <<"get", "b64decode", "hash_password", "compare_digest">>

C10_Witness ==
    /\ last.op = "authenticate"
    /\ last.username = "admin" /\ last.password = "admin123"
    /\ last.out = [t |-> "User", user_id |-> [fixed |-> "u_admin"],
                   name |-> "Administrator", role |-> "Admin"]

(***************************************************************************)
(* SecretKeyManager.load_key (core/secure_store.py) on key file content    *)
(* kf: the key returned or the error raised, and the key file afterwards.  *)
(* draw is the value os.urandom(32) returns if the call reaches it.        *)
(***************************************************************************)
Keys == {StoreKey, ForeignKey}

\* what a load_key call that raises hands back: no key
NoKey == "no key"

urandom(n, draw) == KeyFile(n, draw)

load_key_regenerates(kf, draw) ==
    [raised |-> FALSE, key |-> draw, keyfile |-> urandom(KeyLength, draw)]

load_key_skips_length_check(kf, draw) ==
    LET written == IF kf.kind = "absent" THEN urandom(KeyLength, draw) ELSE kf
    IN  [raised |-> FALSE, key |-> written.bytes, keyfile |-> written]

load_key(kf, draw) ==
    LET written == IF kf.kind = "absent" THEN urandom(KeyLength, draw) ELSE kf
        key == written
    IN  IF key.len # KeyLength
        THEN [raised |-> TRUE, exc |-> "ValueError", key |-> NoKey,
              keyfile |-> written]
        ELSE [raised |-> FALSE, key |-> key.bytes, keyfile |-> written]

\* the document a domain store writes when its file does not exist
EmptyDocument(domain) ==
    IF domain = "evidence" THEN PyList(<<>>) ELSE UsersDoc(<<>>)

Domains == {"evidence", "users"}

(***************************************************************************)
(* Specification SpecKey: one key file and the store file of one domain    *)
(* (EvidenceStore or EncryptedUserStore); load_key is called directly and  *)
(* by the constructor of the domain store, any number of times.            *)
(***************************************************************************)
DamagedKeyFiles ==
    { KeyFile(n, "other bytes") : n \in {0, 16, KeyLength - 1, KeyLength + 1, 64} }

InitialKeyFiles ==
    {Absent} \cup { KeyFile(KeyLength, k) : k \in Keys } \cup DamagedKeyFiles

InitKey ==
    /\ keyfile \in InitialKeyFiles
    /\ \E domain \in Domains :
          /\ hist = [domain |-> domain, first |-> NoKey, created |-> FALSE,
                     again |-> FALSE]
          /\ file \in {Absent} \cup
                { Envelope(EmptyDocument(domain), k, 1) : k \in Keys }
    /\ last = NoCall
    /\ AuthIdle
    /\ EvidenceIdle

\* what the run has seen of load_key so far: the first key returned,
\* whether a call created the key file, whether a call followed a return
Remember(r) ==
    [hist EXCEPT !.first = IF hist.first = NoKey THEN r.key ELSE @,
                 !.created = @ \/ (keyfile.kind = "absent" /\ ~r.raised),
                 !.again = @ \/ hist.first # NoKey]

\* key_manager.load_key()
LoadKey(draw) ==
    LET r == load_key(keyfile, draw) IN
    /\ keyfile' = r.keyfile
    /\ hist' = Remember(r)
    /\ last' = [op |-> "load_key", raised |-> r.raised, key |-> r.key,
                exc |-> IF r.raised THEN r.exc ELSE ""]
    /\ UNCHANGED <<file, records, phase, uuidCtr, lock, pc, raw, data>>

\* EvidenceStore(...) or EncryptedUserStore(...): load_key, then the empty
\* document is written if the store file does not exist
ConstructStore(draw, iv) ==
    LET r == load_key(keyfile, draw) IN
    /\ keyfile' = r.keyfile
    /\ hist' = Remember(r)
    /\ file' = IF ~r.raised /\ file.kind = "absent"
               THEN JsonStore_write(EmptyDocument(hist.domain), r.key, iv)
               ELSE file
    /\ last' = [op |-> "construct_store", raised |-> r.raised, key |-> r.key,
                exc |-> IF r.raised THEN r.exc ELSE ""]
    /\ UNCHANGED <<records, phase, uuidCtr, lock, pc, raw, data>>

NextKey ==
    \/ \E draw \in Keys : LoadKey(draw)
    \/ \E draw \in Keys, iv \in IVs : ConstructStore(draw, iv)

SpecKey == InitKey /\ [][NextKey]_vars

KeyCall == last'.op \in {"load_key", "construct_store"}

\* C13: load_key on an absent key file creates a key file of 32 bytes and
\* returns its content; on an existing 32-byte key file every call returns
\* the key the first call returned and leaves the file as it is
C13_LoadKeyIdempotent ==
    [][ KeyCall =>
          /\ keyfile.kind = "absent" =>
                /\ keyfile'.kind = "key" /\ keyfile'.len = 32
                /\ ~last'.raised /\ last'.key = keyfile'.bytes
          /\ (keyfile.kind = "key" /\ keyfile.len = 32) =>
                /\ keyfile' = keyfile
                /\ ~last'.raised /\ last'.key = keyfile.bytes
                /\ hist.first # NoKey => last'.key = hist.first
      ]_vars

C13_Witness ==
    /\ last.op = "load_key"
    /\ hist.created /\ hist.again
    /\ last.key = hist.first
    /\ keyfile = KeyFile(32, last.key)

\* C14: load_key on an existing key file whose length is not 32 bytes
\* raises the configuration error, returns no key and leaves the key file
\* as it is; constructing a domain store over it fails the same way and
\* writes no store file
C14_WrongLengthKeyRejected ==
    [][ (KeyCall /\ keyfile.kind = "key" /\ keyfile.len # 32) =>
          /\ last'.raised /\ last'.exc = "ValueError"
          /\ last'.key = NoKey
          /\ keyfile' = keyfile
          /\ file' = file
      ]_vars

C14_Witness ==
    /\ last.op = "construct_store"
    /\ last.raised
    /\ keyfile = KeyFile(16, "other bytes")
    /\ file = Absent

(***************************************************************************)
(* Specification SpecUsers: one EncryptedUserStore, constructed over any   *)
(* file content, then save_users and list_users called one after another.  *)
(***************************************************************************)
UserSequences ==
    { <<>>, <<TwoAdmins[1]>>, TwoAdmins, <<TwoAdmins[2], TwoAdmins[1]>>,
      <<TwoAdmins[1], TwoAdmins[1]>> }

UserStoreInitialFiles == InitialFiles \cup AuthInitialFiles

InitUsers ==
    /\ \E f \in UserStoreInitialFiles, iv \in IVs :
          /\ file = UserStore_init(f, iv)
          /\ hist = [found |-> f]
    /\ last = NoCall
    /\ AuthIdle
    /\ EvidenceIdle
    /\ keyfile = KeyFile(KeyLength, StoreKey)

\* the call before this one: the sequence it saved or returned
PrevUsers ==
    IF last.op = "save_users" THEN [op |-> "save_users", seq |-> last.arg]
    ELSE IF last.op = "list_users"
    THEN [op |-> "list_users", raised |-> last.raised, seq |-> last.value]
    ELSE [op |-> "none"]

SaveUsers(users, iv) ==
    /\ file' = UserStore_save_users(users, iv)
    /\ last' = [op |-> "save_users", arg |-> users]
    /\ UNCHANGED <<keyfile, hist, records, phase, uuidCtr, lock, pc, raw, data>>

ListUsers(iv) ==
    LET r == UserStore_list_users(file, iv) IN
    /\ file' = r.file
    /\ last' = [op |-> "list_users", raised |-> r.raised,
                value |-> IF r.raised THEN <<>> ELSE r.value,
                prev |-> PrevUsers]
    /\ UNCHANGED <<keyfile, hist, records, phase, uuidCtr, lock, pc, raw, data>>

NextUsers ==
    \/ \E users \in UserSequences, iv \in IVs : SaveUsers(users, iv)
    \/ \E iv \in IVs : ListUsers(iv)

SpecUsers == InitUsers /\ [][NextUsers]_vars

\* C16: list_users right after save_users(R) returns exactly R, in the
\* same order, whatever the store held before; a list_users call that
\* follows a list_users call with no save in between returns the sequence
\* that call returned
C16_SaveThenListRoundTrip ==
    last.op = "list_users" =>
        /\ last.prev.op = "save_users" =>
              (~last.raised /\ last.value = last.prev.seq)
        /\ (last.prev.op = "list_users" /\ ~last.prev.raised) =>
              (~last.raised /\ last.value = last.prev.seq)

C16_Witness ==
    /\ last.op = "list_users"
    /\ hist.found = Envelope(UsersDoc(TwoAdmins), StoreKey, 1)
    /\ last.prev = [op |-> "save_users", seq |-> <<TwoAdmins[2], TwoAdmins[1]>>]
    /\ last.value = <<TwoAdmins[2], TwoAdmins[1]>>

\* the records the user store held when the service was constructed over it
StoredBefore(f) == UserStore_list_users(UserStore_init(f, 1), 1).value

\* C17: constructing an AuthService over a user store with no records
\* leaves exactly the accounts admin (Admin) and investigator
\* (Investigator), in memory and persisted, each authenticating with its
\* default password; over a store with at least one record it seeds
\* nothing and the persisted records stay as they were
C17_ConstructSeedsOnlyEmptyStore ==
    [][ (last'.op = "construct" /\ phase = "new" /\ phase' # "failed") =>
          IF StoredBefore(file) = <<>>
          THEN /\ Len(records') = 2
               /\ records'[1].username = "admin" /\ records'[1].role = "Admin"
               /\ records'[2].username = "investigator"
               /\ records'[2].role = "Investigator"
               /\ PersistedUsers'.value = records'
               /\ authenticate(records', "admin", "admin123") = User(records'[1])
               /\ authenticate(records', "investigator", "invest123")
                      = User(records'[2])
          ELSE /\ records' = StoredBefore(file)
               /\ PersistedUsers'.value = StoredBefore(file)
      ]_vars

C17_Witness ==
    /\ last.op = "construct"
    /\ phase = "seeded"
    /\ Len(records) = 2
    /\ PersistedUsers.value = records

\* C19: once the service is constructed, and after every upsert_user and
\* delete_user call, returned or failed, the user store's list_users equals
\* the in-memory records: the same records in the same order
C19_MemoryEqualsDisk ==
    Ready => (~PersistedUsers.raised /\ PersistedUsers.value = records)

C19_Witness ==
    /\ last.op = "upsert"
    /\ ~last.raised
    /\ Len(records) = 3
    /\ PersistedUsers.value = records

\* the first half of C20: an upsert of an existing username without a
\* password keeps the salt and the hash, so every password that
\* authenticated before still does
UpsertKeepsCredentials ==
    (last'.op = "upsert" /\ ~last'.raised /\ Falsy(hist'.password)) =>
        LET u == strip(hist'.username) IN
        \E i \in 1..Len(records) :
            /\ records[i].username = u
            /\ records'[i].username = u
            /\ records'[i].salt = records[i].salt
            /\ records'[i].password_hash = records[i].password_hash
            /\ \A p \in LoginPasswords :
                  authenticate(records, u, p) # AuthNone
                      => authenticate(records', u, p) = User(records'[i])

\* the second half: an upsert with password p stores the hash of p over
\* the salt drawn in the call, and authenticate(name, p) succeeds
UpsertSetsPassword(name) ==
    (last'.op = "upsert" /\ ~last'.raised /\ ~Falsy(hist'.password)) =>
        \E i \in 1..Len(records') :
            /\ records'[i].username = strip(hist'.username)
            /\ b64decode(records'[i].salt).val \in Salts
            /\ records'[i].password_hash
                  = hash_password(hist'.password, b64decode(records'[i].salt).val)
            /\ authenticate(records', name, hist'.password) = User(records'[i])

\* C20: an upsert without a password keeps salt and hash, so the previous
\* password still authenticates; an upsert with password p stores a hash
\* over a fresh salt, after which authenticate(username, p) succeeds, with
\* the username as it was passed to upsert_user
C20_UpsertKeepsOrSetsPassword ==
    [][UpsertKeepsCredentials /\ UpsertSetsPassword(hist'.username)]_vars

\* C20 amended: as above, with authenticate called under the username as
\* upsert_user stored it, surrounding whitespace removed
C20_UpsertKeepsOrSetsPasswordStripped ==
    [][UpsertKeepsCredentials /\ UpsertSetsPassword(strip(hist'.username))]_vars

C20_Witness ==
    /\ last.op = "upsert"
    /\ ~last.raised
    /\ hist = [username |-> " bob ", password |-> "pw"]
    /\ authenticate(records, "bob", "pw") # AuthNone

\* C23: a read of a file that holds a well-formed envelope (fields iv and
\* ciphertext), whether or not the store's key decrypts it, leaves the file
\* content as it was
C23_ReadKeepsEnvelope ==
    (last.op = "read" /\ WellFormedEnvelope(last.before)) => file = last.before

\* C21: an upsert_user call that returns leaves every record at its place
\* with the user_id it had, and the record of a brand-new username gets a
\* user_id that no record in the store had before the call
C21_UserIdStableAndFresh ==
    [][ (last'.op = "upsert" /\ ~last'.raised) =>
          /\ Len(records') >= Len(records)
          /\ \A i \in 1..Len(records) :
                /\ records'[i].username = records[i].username
                /\ records'[i].user_id = records[i].user_id
          /\ Len(records') > Len(records) =>
                \A i \in 1..Len(records) :
                    records'[Len(records')].user_id # records[i].user_id
      ]_vars

C21_Witness ==
    /\ last.op = "upsert" /\ ~last.raised
    /\ hist = [username |-> " bob ", password |-> NoPassword]
    /\ Len(records) = 3
    /\ records[3].username = "bob"
    /\ records[3].user_id = [uuid4 |-> 1]
    /\ records[1].user_id = [fixed |-> "u_admin"]

(***************************************************************************)
(* EvidenceStore (core/storage.py): MemoryImage records and the payload    *)
(* add_image stores for them.                                              *)
(***************************************************************************)
MemoryImage(n) ==
    [ image_id |-> [id |-> n], sha256 |-> "sha256-of-image",
      recovered_by |-> "u_admin", captured_at |-> [datetime |-> n],
      case_id |-> "case-7", path |-> "/tmp/img.raw", size_bytes |-> 1048576 ]

isoformat(dt) == [iso |-> dt.datetime]

add_image_payload(image) ==
    [ image_id |-> image.image_id, sha256 |-> image.sha256,
      recovered_by |-> image.recovered_by,
      captured_at |-> isoformat(image.captured_at),
      case_id |-> image.case_id, path |-> image.path,
      size_bytes |-> image.size_bytes ]

\* list(...) in EvidenceStore._read: a list as it is, a dict as its keys
to_list(v) ==
    IF v.t = "list" THEN v.items
    ELSE IF HasKey(v, "users") THEN << PyStr("users") >>
    ELSE << PyStr("iv"), PyStr("ciphertext") >>

EvidenceStore_write(items, iv) == JsonStore_write(PyList(items), StoreKey, iv)

EvidenceStore_init(f, iv) ==
    IF f.kind = "absent" THEN JsonStore_write(PyList(<<>>), StoreKey, iv) ELSE f

\* the sequence EvidenceStore._read returns for file content f
Stored(f) == to_list(JsonStore_read(f, StoreKey, PyList(<<>>), 1).value)

(***************************************************************************)
(* Specification SpecEvidence: NCallers threads, each calling add_image    *)
(* once with its own record on one EvidenceStore.                          *)
(***************************************************************************)
Callers == 1..NCallers

EarlierImage == add_image_payload(MemoryImage(0))

EvidenceInitialFiles ==
    { Absent, BlankText, NotJsonText,
      Envelope(PyList(<<EarlierImage>>), StoreKey, 1),
      Envelope(PyList(<<EarlierImage>>), ForeignKey, 1),
      JsonText(PyList(<<EarlierImage>>)) }

InitEvidence ==
    /\ \E f \in EvidenceInitialFiles, iv \in IVs :
          /\ file = EvidenceStore_init(f, iv)
          /\ last = [op |-> "evidence", initial |-> Stored(file)]
    /\ AuthIdle
    /\ KeyLoaded
    /\ lock = 0
    /\ pc = [c \in Callers |-> "start"]
    /\ raw = [c \in Callers |-> Absent]
    /\ data = [c \in Callers |-> <<>>]

lock_is_ignored(l) == TRUE

\* with self._lock: the caller enters when no one holds the lock
lock_is_free(l) == l = 0

\* add_image, line 39: with self._lock
AddAcquire(c) ==
    /\ pc[c] = "start"
    /\ lock_is_free(lock)
    /\ lock' = c
    /\ pc' = [pc EXCEPT ![c] = "read_text"]
    /\ UNCHANGED <<keyfile, hist, file, last, records, phase, uuidCtr, raw, data>>

\* read, lines 38-40: exists() and read_text()
AddReadText(c) ==
    /\ pc[c] = "read_text"
    /\ raw' = [raw EXCEPT ![c] = file]
    /\ pc' = [pc EXCEPT ![c] = "parse"]
    /\ UNCHANGED <<keyfile, hist, file, last, records, phase, uuidCtr, lock, data>>

\* read, lines 41-59 on the text read, then list(...) of _read
AddParse(c, iv) ==
    /\ pc[c] = "parse"
    /\ LET r == JsonStore_read(raw[c], StoreKey, PyList(<<>>), iv) IN
       /\ file' = IF r.path = "legacy" THEN r.file ELSE file
       /\ data' = [data EXCEPT ![c] = to_list(r.value)]
    /\ pc' = [pc EXCEPT ![c] = "write"]
    /\ UNCHANGED <<keyfile, hist, last, records, phase, uuidCtr, lock, raw>>

\* add_image, lines 41-42: data.append(payload); self._write(data)
AddWrite(c, iv) ==
    /\ pc[c] = "write"
    /\ file' = EvidenceStore_write(
                  Append(data[c], add_image_payload(MemoryImage(c))), iv)
    /\ pc' = [pc EXCEPT ![c] = "release"]
    /\ UNCHANGED <<keyfile, hist, last, records, phase, uuidCtr, lock, raw, data>>

\* leaving the with block
AddRelease(c) ==
    /\ pc[c] = "release"
    /\ lock' = 0
    /\ pc' = [pc EXCEPT ![c] = "done"]
    /\ UNCHANGED <<keyfile, hist, file, last, records, phase, uuidCtr, raw, data>>

NextEvidence ==
    \E c \in Callers :
        \/ AddAcquire(c)
        \/ AddReadText(c)
        \/ \E iv \in IVs : AddParse(c, iv)
        \/ \E iv \in IVs : AddWrite(c, iv)
        \/ AddRelease(c)

SpecEvidence == InitEvidence /\ [][NextEvidence]_vars

(***************************************************************************)
(* Properties of EvidenceStore, checked under SpecEvidence.                *)
(***************************************************************************)
AllDone == \A c \in Callers : pc[c] = "done"

Positions(items, x) == { i \in 1..Len(items) : items[i] = x }

\* C1: when every one of the N concurrent add_image calls has completed, the
\* stored sequence is what was stored before followed by exactly the N added
\* records, each once: no call overwrote the record of another.
C1_NoAddImageIsLost ==
    AllDone =>
        LET now == Stored(file)
            before == last.initial
        IN  /\ Len(now) = Len(before) + NCallers
            /\ SubSeq(now, 1, Len(before)) = before
            /\ \A c \in Callers :
                  Cardinality(Positions(now, add_image_payload(MemoryImage(c)))) = 1

C1_Witness ==
    /\ AllDone
    /\ last.initial = <<EarlierImage>>
    /\ Len(Stored(file)) = 1 + NCallers
    /\ Stored(file)[2] = add_image_payload(MemoryImage(NCallers))

(***************************************************************************)
(* EvidenceStore.list_images: every stored entry goes through _to_model.   *)
(***************************************************************************)
\* datetime.fromisoformat: the datetime an isoformat string stands for
fromisoformat(text) ==
    IF "iso" \in DOMAIN text THEN [ok |-> TRUE, val |-> [datetime |-> text.iso]]
    ELSE Raised

PayloadKeys == {"image_id", "sha256", "recovered_by", "captured_at", "case_id", "path"}

\* _to_model: a missing key or an unreadable date raises; a missing
\* size_bytes counts as 0, and int(...) of a stored integer is that integer
to_model(payload) ==
    IF ~(PayloadKeys \subseteq DOMAIN payload) THEN Raised
    ELSE IF ~fromisoformat(payload.captured_at).ok THEN Raised
    ELSE [ok |-> TRUE,
          val |-> [ image_id |-> payload.image_id, sha256 |-> payload.sha256,
                    recovered_by |-> payload.recovered_by,
                    captured_at |-> fromisoformat(payload.captured_at).val,
                    case_id |-> payload.case_id, path |-> payload.path,
                    size_bytes |-> IF "size_bytes" \in DOMAIN payload
                                   THEN payload.size_bytes ELSE 0 ]]

to_models(items) == [i \in 1..Len(items) |-> to_model(items[i])]

EvidenceStore_list_images(f, iv) ==
    LET r == JsonStore_read(f, StoreKey, PyList(<<>>), iv) IN
    IF r.raised THEN r
    ELSE IF r.value.t = "null" THEN Raises("TypeError", r.file)
    ELSE LET models == to_models(to_list(r.value)) IN
         IF \E i \in 1..Len(models) : ~models[i].ok
         THEN Raises("TypeError", r.file)
         ELSE Returns([i \in 1..Len(models) |-> models[i].val], r.path, r.file)

(***************************************************************************)
(* Specification SpecImages: one EvidenceStore and one caller; add_image,  *)
(* list_images and clear are called one after another.                     *)
(***************************************************************************)
MaxImages == 2

ImageIds == 1..MaxImages

\* a payload of the predecessor format, stored without size_bytes
PayloadWithoutSize ==
    [x \in PayloadKeys |-> add_image_payload(MemoryImage(0))[x]]

ImagesInitialFiles ==
    { Absent, BlankText,
      Envelope(PyList(<<EarlierImage>>), StoreKey, 1),
      JsonText(PyList(<<EarlierImage>>)),
      JsonText(PyList(<<PayloadWithoutSize, EarlierImage>>)) }

InitImages ==
    /\ \E f \in ImagesInitialFiles, iv \in IVs :
          /\ file = EvidenceStore_init(f, iv)
          /\ hist = [before |-> EvidenceStore_list_images(file, 1).value,
                     added |-> <<>>, cleared |-> FALSE]
    /\ last = NoCall
    /\ AuthIdle
    /\ EvidenceIdle
    /\ keyfile = KeyFile(KeyLength, StoreKey)

AddImage_overwrites(n, iv) ==
    /\ Len(hist.added) < MaxImages
    /\ file' = EvidenceStore_write(<<add_image_payload(MemoryImage(n))>>, iv)
    /\ hist' = [hist EXCEPT !.added = Append(@, MemoryImage(n))]
    /\ last' = [op |-> "add_image", image |-> n]
    /\ UNCHANGED <<keyfile, records, phase, uuidCtr, lock, pc, raw, data>>

\* add_image(MemoryImage(n)) from the payload to the release of the lock
AddImage(n, iv) ==
    /\ Len(hist.added) < MaxImages
    /\ LET r == JsonStore_read(file, StoreKey, PyList(<<>>), iv)
           items == to_list(r.value)
       IN  file' = EvidenceStore_write(
                      Append(items, add_image_payload(MemoryImage(n))), iv)
    /\ hist' = [hist EXCEPT !.added = Append(@, MemoryImage(n))]
    /\ last' = [op |-> "add_image", image |-> n]
    /\ UNCHANGED <<keyfile, records, phase, uuidCtr, lock, pc, raw, data>>

ListImages(iv) ==
    LET r == EvidenceStore_list_images(file, iv) IN
    /\ file' = r.file
    /\ last' = [op |-> "list_images", raised |-> r.raised,
                value |-> IF r.raised THEN <<>> ELSE r.value]
    /\ UNCHANGED <<keyfile, hist, records, phase, uuidCtr, lock, pc, raw, data>>

Clear(iv) ==
    /\ file' = EvidenceStore_write(<<>>, iv)
    /\ hist' = [hist EXCEPT !.cleared = TRUE]
    /\ last' = [op |-> "clear"]
    /\ UNCHANGED <<keyfile, records, phase, uuidCtr, lock, pc, raw, data>>

NextImages ==
    \/ \E n \in ImageIds, iv \in IVs : AddImage(n, iv)
    \/ \E iv \in IVs : ListImages(iv)
    \/ \E iv \in IVs : Clear(iv)

SpecImages == InitImages /\ [][NextImages]_vars

\* C15: as long as clear has not been called, the store holds, and
\* list_images returns, the records it held at the start followed by
\* exactly the added records, in the order they were added, each with the
\* fields it was added with; no add_image changes, removes or reorders an
\* earlier record
C15_AddImageOnlyAppends ==
    ~hist.cleared =>
        /\ ~EvidenceStore_list_images(file, 1).raised
        /\ EvidenceStore_list_images(file, 1).value = hist.before \o hist.added
        /\ last.op = "list_images" =>
              (~last.raised /\ last.value = hist.before \o hist.added)

C15_Witness ==
    /\ last.op = "list_images"
    /\ ~hist.cleared
    /\ hist.before = <<>>
    /\ hist.added = <<MemoryImage(2), MemoryImage(1)>>
    /\ last.value = <<MemoryImage(2), MemoryImage(1)>>
    /\ last.value[1].case_id = "case-7"

(***************************************************************************)
(* Specification SpecDamaged: one store of either domain over a backing    *)
(* file of any content, usable or damaged; the caller lists the store.     *)
(***************************************************************************)
StoredDocs ==
    { PyNone, PyList(<<>>), PyList(<<EarlierImage>>), UsersDoc(<<>>),
      UsersDoc(TwoAdmins), EnvelopeDict(PyStr("abc"), PyStr("abc")) }

BackingFiles ==
    { BadBytes, BlankText, NotJsonText, DamagedEnvelope }
    \cup { JsonText(d) : d \in StoredDocs }
    \cup { Envelope(d, k, iv) : d \in StoredDocs, k \in {StoreKey, ForeignKey},
                                iv \in IVs }
    \cup { NotJsonInside(StoreKey, 1) }

InitDamaged ==
    /\ file \in BackingFiles
    /\ \E domain \in Domains : hist = [domain |-> domain, found |-> file]
    /\ last = NoCall
    /\ AuthIdle
    /\ EvidenceIdle
    /\ keyfile = KeyFile(KeyLength, StoreKey)

NextDamaged ==
    \/ \E iv \in IVs : hist.domain = "evidence" /\ ListImages(iv)
    \/ \E iv \in IVs : hist.domain = "users" /\ ListUsers(iv)

SpecDamaged == InitDamaged /\ [][NextDamaged]_vars

\* the file holds, encrypted under the store's key or as legacy plaintext,
\* a document of the shape the domain's store writes
Usable(f, domain) ==
    /\ IsJsonFile(f)
    /\ LET r == JsonStore_read(f, StoreKey, EmptyDocument(domain), 1) IN
       /\ r.path \in {"encrypted", "legacy"}
       /\ IF domain = "evidence" THEN r.value.t = "list"
          ELSE HasKey(r.value, "users")

\* C22: whatever the backing file holds (an envelope that does not
\* decrypt, JSON of another shape, text that is not JSON, bytes that are
\* not text), list_images and list_users return a sequence and do not
\* raise, and the sequence is empty when the file held nothing usable
C22_DamagedStoreNeverCrashes ==
    last.op \in {"list_images", "list_users"} =>
        /\ ~last.raised
        /\ ~Usable(hist.found, hist.domain) => last.value = <<>>

(***************************************************************************)
(* Specification SpecShared: three threads on one EvidenceStore, one in    *)
(* add_image, one in clear, one in list_images.  EncryptedJsonStore.write  *)
(* ends in Path.write_text, which opens the file with mode "w" (the file   *)
(* is cut to nothing), writes the text and closes: two steps, and between  *)
(* them the file is empty or holds the part written so far.                *)
(***************************************************************************)
Adder == 1
Clearer == 2
Lister == 3

Threads == {Adder, Clearer, Lister}

\* the file between open(mode="w") and the end of the write
MidWrite == {BlankText, NotJsonText}

SharedInitialFiles ==
    { Envelope(PyList(<<>>), StoreKey, 1),
      Envelope(PyList(<<EarlierImage>>), StoreKey, 1),
      JsonText(PyList(<<EarlierImage>>)) }

\* what the run has seen: the content the last completed write left, and
\* every sequence the store held when no write was in progress
Whole(f, seqs) == [current |-> f, seqs |-> seqs \cup {Stored(f)}]

InitShared ==
    /\ file \in SharedInitialFiles
    /\ hist = Whole(file, {})
    /\ last = NoCall
    /\ AuthIdle
    /\ keyfile = KeyFile(KeyLength, StoreKey)
    /\ lock = 0
    /\ pc = [t \in Threads |-> "start"]
    /\ raw = [t \in Threads |-> Absent]
    /\ data = [t \in Threads |-> PyList(<<>>)]

\* add_image line 39, clear line 45: with self._lock
Acquire(t) ==
    /\ t \in {Adder, Clearer}
    /\ pc[t] = "start"
    /\ lock_is_free(lock)
    /\ lock' = t
    /\ pc' = [pc EXCEPT ![t] = IF t = Adder THEN "read_text" ELSE "write_open"]
    /\ UNCHANGED <<keyfile, hist, file, last, records, phase, uuidCtr, raw, data>>

\* read, lines 38-40: exists() and read_text(); list_images comes here
\* straight from its call, it takes no lock
SharedReadText(t) ==
    /\ \/ t = Adder /\ pc[t] = "read_text"
       \/ t = Lister /\ pc[t] = "start"
    /\ raw' = [raw EXCEPT ![t] = file]
    /\ pc' = [pc EXCEPT ![t] = "parse"]
    /\ UNCHANGED <<keyfile, hist, file, last, records, phase, uuidCtr, lock, data>>

\* where a thread goes when read has returned
AfterRead(t) == IF t = Adder THEN "write_open" ELSE "return"

\* read, lines 41-57 on the text read; a legacy document is written back
SharedParse(t) ==
    /\ pc[t] = "parse"
    /\ LET r == JsonStore_read(raw[t], StoreKey, PyList(<<>>), 1) IN
       /\ data' = [data EXCEPT ![t] = r.value]
       /\ pc' = [pc EXCEPT ![t] = IF r.path = "legacy" THEN "upgrade_open"
                                  ELSE AfterRead(t)]
    /\ UNCHANGED <<keyfile, hist, file, last, records, phase, uuidCtr, lock, raw>>

\* the list a thread in write is writing
Pending(t) ==
    IF pc[t] \in {"upgrade_open", "upgrade_flush"} THEN data[t]
    ELSE IF t = Adder
    THEN PyList(Append(to_list(data[t]), add_image_payload(MemoryImage(1))))
    ELSE PyList(<<>>)

\* write, line 68: write_text opens the file, which empties it
WriteOpen(t, mid) ==
    /\ pc[t] \in {"upgrade_open", "write_open"}
    /\ file' = mid
    /\ pc' = [pc EXCEPT ![t] = IF pc[t] = "write_open" THEN "write_flush"
                                  ELSE "upgrade_flush"]
    /\ UNCHANGED <<keyfile, hist, last, records, phase, uuidCtr, lock, raw, data>>

\* write, line 68: write_text writes its text from offset 0 through its own
\* handle and closes; only the open cut the file.  When another thread has
\* written a text through its handle since (f holds it), a longer one
\* keeps its end behind the text written now, and the file is not JSON.
\* The length of an envelope text is that of the records it encrypts: a
\* list that holds every record of another list as often, and more, is
\* the longer text; lists of the same records are of the same length; of
\* two lists with different records either can be the longer one, the
\* length of a record being that of its field values.
closed_file(written, f) ==
    LET w == Stored(written)
        o == Stored(f)
        count(e, s) == Cardinality({ i \in 1..Len(s) : s[i] = e })
        within(a, b) == \A i \in 1..Len(a) : count(a[i], a) <= count(a[i], b)
    IN  IF ~IsJsonFile(f) \/ within(o, w) THEN {written}
        ELSE IF within(w, o) THEN {NotJsonText}
        ELSE {written, NotJsonText}

\* write, line 68: write_text has written its text and closed the file
WriteFlush(t, iv) ==
    /\ pc[t] \in {"upgrade_flush", "write_flush"}
    /\ file' \in closed_file(JsonStore_write(Pending(t), StoreKey, iv), file)
    /\ hist' = Whole(file', hist.seqs)
    /\ pc' = [pc EXCEPT ![t] = IF pc[t] = "write_flush" THEN "release"
                                  ELSE AfterRead(t)]
    /\ UNCHANGED <<keyfile, last, records, phase, uuidCtr, lock, raw, data>>

\* leaving the with block
Release(t) ==
    /\ pc[t] = "release"
    /\ lock' = 0
    /\ pc' = [pc EXCEPT ![t] = "done"]
    /\ UNCHANGED <<keyfile, hist, file, last, records, phase, uuidCtr, raw, data>>

\* list_images, line 27: the models of what _read returned
ListReturn ==
    /\ pc[Lister] = "return"
    /\ LET models == to_models(to_list(data[Lister]))
           raised == \E i \in 1..Len(models) : ~models[i].ok
       IN  last' = [op |-> "list_images", raised |-> raised,
                    value |-> IF raised THEN <<>>
                              ELSE [i \in 1..Len(models) |-> models[i].val]]
    /\ pc' = [pc EXCEPT ![Lister] = "done"]
    /\ UNCHANGED <<keyfile, hist, file, records, phase, uuidCtr, lock, raw, data>>

NextShared ==
    \/ \E t \in Threads :
          \/ Acquire(t)
          \/ SharedReadText(t)
          \/ SharedParse(t)
          \/ \E mid \in MidWrite : WriteOpen(t, mid)
          \/ \E iv \in IVs : WriteFlush(t, iv)
          \/ Release(t)
    \/ ListReturn

SpecShared == InitShared /\ [][NextShared]_vars

ModelsOf(items) == [i \in 1..Len(items) |-> to_model(items[i]).val]

\* no operation is under way: every thread has yet to call or has returned
Quiet == \A t \in Threads : pc[t] \in {"start", "done"}

\* C12: a list_images call that runs while add_image or clear runs returns
\* the stored sequence as it was before or as it is after that operation:
\* once the operations under way have returned, what list_images returned
\* is a sequence the store held at some moment with no write in progress,
\* never an empty or partial result of a write in progress
C12_ListImagesSeesWholeStore ==
    (last.op = "list_images" /\ Quiet) =>
        /\ ~last.raised
        /\ \E items \in hist.seqs : last.value = ModelsOf(items)

\* C18: at every moment the file holds the complete content the last
\* completed write left (or the initial content), or the complete
\* envelope of the write in progress; never an empty or partial file
C18_WriteReplacesFileAsAWhole ==
    \/ file = hist.current
    \/ \E t \in Threads, iv \in IVs :
          /\ pc[t] \in {"upgrade_flush", "write_flush"}
          /\ file = JsonStore_write(Pending(t), StoreKey, iv)

\* C25: once add_image has returned and as long as clear has not been
\* called, the record it appended is in the stored sequence, whatever a
\* concurrent list_images call did (its migration rewrite included)
C25_AddedImageStays ==
    (pc[Adder] = "done" /\ pc[Clearer] = "start"
       /\ pc[Lister] \in {"start", "done"}) =>
        \E i \in 1..Len(Stored(file)) :
            Stored(file)[i] = add_image_payload(MemoryImage(1))

(***************************************************************************)
(* Specification SpecDelete: two threads on one AuthService that holds     *)
(* exactly two Admin records, each calling delete_user on a different      *)
(* Admin.  AuthService has no lock of its own; the only lock a call takes  *)
(* is the user store's, inside _persist.  A thread can be switched out     *)
(* between any two statements of delete_user and between two items of the  *)
(* iteration that counts the Admin records.                                *)
(***************************************************************************)
Deleters == {1, 2}

Target(t) == TwoAdmins[t].username

Viewer == create_user_record("bob", "bob", "Viewer", "pw", [uuid4 |-> 1], FALSE, 1)

InitDelete ==
    /\ records \in {TwoAdmins, Append(TwoAdmins, Viewer)}
    /\ file = Envelope(UsersDoc(records), StoreKey, 1)
    /\ phase = "loaded"
    /\ uuidCtr = 0
    /\ last = NoCall
    /\ KeyLoaded
    /\ lock = 0
    /\ pc = [t \in Deleters |-> "start"]
    /\ raw = <<>>
    /\ data = [t \in Deleters |-> [size |-> 0, payload |-> <<>>]]

\* delete_user, lines 81-84: the record is looked up, its role is tested
Lookup(t) ==
    /\ pc[t] = "start"
    /\ pc' = [pc EXCEPT ![t] =
                 IF ~Has(records, Target(t)) THEN "raised"
                 ELSE IF IsAdmin(Get(records, Target(t))) THEN "count"
                 ELSE "del"]
    /\ UNCHANGED <<keyfile, hist, file, last, records, phase, uuidCtr, lock, raw, data>>

\* line 85: the iteration over self._records.values() begins
CountBegin(t) ==
    /\ pc[t] = "count"
    /\ data' = [data EXCEPT ![t].size = Len(records)]
    /\ pc' = [pc EXCEPT ![t] = "counting"]
    /\ UNCHANGED <<keyfile, hist, file, last, records, phase, uuidCtr, lock, raw>>

\* lines 85-88: the iteration ends; a dict that changed size while it was
\* iterated raises RuntimeError, fewer than two Admin records raise
\* ValueError
CountEnd(t) ==
    /\ pc[t] = "counting"
    /\ pc' = [pc EXCEPT ![t] =
                 IF Len(records) # data[t].size THEN "raised"
                 ELSE IF admin_count(records) <= 1 THEN "raised"
                 ELSE "del"]
    /\ UNCHANGED <<keyfile, hist, file, last, records, phase, uuidCtr, lock, raw, data>>

\* line 90: del self._records[username]
Del(t) ==
    /\ pc[t] = "del"
    /\ IF Has(records, Target(t))
       THEN /\ records' = DictDel(records, Target(t))
            /\ pc' = [pc EXCEPT ![t] = "persist"]
       ELSE /\ records' = records
            /\ pc' = [pc EXCEPT ![t] = "raised"]
    /\ UNCHANGED <<keyfile, hist, file, last, phase, uuidCtr, lock, raw, data>>

\* line 91, save_users line 30: with self._lock
PersistAcquire(t) ==
    /\ pc[t] = "persist"
    /\ lock_is_free(lock)
    /\ lock' = t
    /\ pc' = [pc EXCEPT ![t] = "payload"]
    /\ UNCHANGED <<keyfile, hist, file, last, records, phase, uuidCtr, raw, data>>

\* save_users line 31: payload = {"users": list(users)}, users being the
\* live view self._records.values(): the records as they are now
PersistPayload(t) ==
    /\ pc[t] = "payload"
    /\ data' = [data EXCEPT ![t].payload = records]
    /\ pc' = [pc EXCEPT ![t] = "save"]
    /\ UNCHANGED <<keyfile, hist, file, last, records, phase, uuidCtr, lock, raw>>

\* save_users line 32: the payload made at line 31 is written
PersistWrite(t, iv) ==
    /\ pc[t] = "save"
    /\ file' = UserStore_save_users(data[t].payload, iv)
    /\ pc' = [pc EXCEPT ![t] = "release"]
    /\ UNCHANGED <<keyfile, hist, last, records, phase, uuidCtr, lock, raw, data>>

\* the with block is left and delete_user returns
PersistRelease(t) ==
    /\ pc[t] = "release"
    /\ lock' = 0
    /\ pc' = [pc EXCEPT ![t] = "returned"]
    /\ UNCHANGED <<keyfile, hist, file, last, records, phase, uuidCtr, raw, data>>

NextDelete ==
    \E t \in Deleters :
        \/ Lookup(t)
        \/ CountBegin(t)
        \/ CountEnd(t)
        \/ Del(t)
        \/ PersistAcquire(t)
        \/ PersistPayload(t)
        \/ \E iv \in IVs : PersistWrite(t, iv)
        \/ PersistRelease(t)

SpecDelete == InitDelete /\ [][NextDelete]_vars

\* C24: with two Admin records and two concurrent delete_user calls, each
\* on a different Admin, an Admin record remains at every moment, in
\* memory and (once the calls are over) in the store, and at most one of
\* the two calls returns without raising
C24_AdminSurvivesConcurrentDelete ==
    /\ admin_count(records) >= 1
    /\ ~(\A t \in Deleters : pc[t] = "returned")
    /\ (\A t \in Deleters : pc[t] \in {"returned", "raised"}) =>
           admin_count(PersistedUsers.value) >= 1

(***************************************************************************)
(* Specification SpecLock: NCallers threads on one store of either domain, *)
(* each making one call that takes the store's lock: add_image or clear on *)
(* an EvidenceStore, list_users or save_users on an EncryptedUserStore.    *)
(* The lock is a threading.Lock held in a with block; read and write of    *)
(* the EncryptedJsonStore take no lock.  A thread that can take a step is  *)
(* scheduled eventually.                                                   *)
(***************************************************************************)
LockCallers == 1..NCallers

StoreOps(domain) ==
    IF domain = "evidence" THEN {"add_image", "clear"}
    ELSE {"list_users", "save_users"}

\* a document with content, as an earlier version left it in plaintext
LegacyDocument(domain) ==
    IF domain = "evidence" THEN PyList(<<EarlierImage>>) ELSE UsersDoc(TwoAdmins)

LockInitialFiles(domain) ==
    { Envelope(EmptyDocument(domain), StoreKey, 1),
      Envelope(EmptyDocument(domain), ForeignKey, 1),
      JsonText(LegacyDocument(domain)),
      JsonText(PyNone),
      BadBytes }

InitLock ==
    /\ \E domain \in Domains :
          /\ file \in LockInitialFiles(domain)
          /\ \E op \in [LockCallers -> StoreOps(domain)] :
                hist = [domain |-> domain, op |-> op]
    /\ last = NoCall
    /\ AuthIdle
    /\ keyfile = KeyFile(KeyLength, StoreKey)
    /\ lock = 0
    /\ pc = [t \in LockCallers |-> "start"]
    /\ raw = [t \in LockCallers |-> Absent]
    /\ data = [t \in LockCallers |-> <<>>]

\* with self._lock: storage.py lines 39 and 45, user_store.py lines 24, 30
LockAcquire(t) ==
    /\ pc[t] = "start"
    /\ lock_is_free(lock)
    /\ lock' = t
    /\ pc' = [pc EXCEPT ![t] = IF hist.op[t] \in {"add_image", "list_users"}
                                  THEN "read" ELSE "write"]
    /\ UNCHANGED <<keyfile, hist, file, last, records, phase, uuidCtr, raw, data>>

\* what the statements after the read do with the value it returned:
\* list(...) in _read raises on None, data.get raises on a non-dict
UsesValue(op, value) ==
    IF op = "add_image"
    THEN IF value.t = "null" THEN "raising" ELSE "write"
    ELSE IF value.t # "dict" THEN "raising" ELSE "release"

\* add_image line 40, list_users lines 25-27: the read under the lock, with
\* the migration write of a legacy document
LockRead(t, iv) ==
    /\ pc[t] = "read"
    /\ LET r == JsonStore_read(file, StoreKey, EmptyDocument(hist.domain), iv) IN
       /\ raw' = [raw EXCEPT ![t] = file]
       /\ file' = r.file
       /\ data' = [data EXCEPT ![t] =
                      IF ~r.raised /\ UsesValue(hist.op[t], r.value) = "write"
                      THEN to_list(r.value) ELSE <<>>]
       /\ pc' = [pc EXCEPT ![t] = IF r.raised THEN "raising"
                                    ELSE UsesValue(hist.op[t], r.value)]
    /\ UNCHANGED <<keyfile, hist, last, records, phase, uuidCtr, lock>>

\* the document a call writes: add_image lines 41-42, clear line 46,
\* save_users lines 31-32
Written(t) ==
    IF hist.op[t] = "add_image"
    THEN PyList(Append(data[t], add_image_payload(MemoryImage(t))))
    ELSE IF hist.op[t] = "clear" THEN PyList(<<>>)
    ELSE UsersDoc(TwoAdmins)

LockWrite(t, iv) ==
    /\ pc[t] = "write"
    /\ file' = JsonStore_write(Written(t), StoreKey, iv)
    /\ pc' = [pc EXCEPT ![t] = "release"]
    /\ UNCHANGED <<keyfile, hist, last, records, phase, uuidCtr, lock, raw, data>>

LockRelease_only_on_return(t) ==
    /\ pc[t] \in {"release", "raising"}
    /\ lock' = IF pc[t] = "release" THEN 0 ELSE lock
    /\ pc' = [pc EXCEPT ![t] = IF pc[t] = "release" THEN "returned" ELSE "raised"]
    /\ UNCHANGED <<keyfile, hist, file, last, records, phase, uuidCtr, raw, data>>

\* the with block is left, by a return or by an exception
LockRelease(t) ==
    /\ pc[t] \in {"release", "raising"}
    /\ lock' = 0
    /\ pc' = [pc EXCEPT ![t] = IF pc[t] = "release" THEN "returned" ELSE "raised"]
    /\ UNCHANGED <<keyfile, hist, file, last, records, phase, uuidCtr, raw, data>>

LockStep(t) ==
    \/ LockAcquire(t)
    \/ \E iv \in IVs : LockRead(t, iv)
    \/ \E iv \in IVs : LockWrite(t, iv)
    \/ LockRelease(t)

NextLock == \E t \in LockCallers : LockStep(t)

SpecLock ==
    /\ InitLock
    /\ [][NextLock]_vars
    /\ \A t \in LockCallers : WF_vars(LockStep(t))

Over(t) == pc[t] \in {"returned", "raised"}

\* C26: a call of add_image, clear, list_users or save_users that has
\* returned or raised does not hold its store's lock (also when its read
\* migrated a legacy document), and every caller that waits for the lock
\* eventually takes it and its call ends
C26_LockReleasedAndCallersComplete ==
    /\ [](\A t \in LockCallers : Over(t) => lock # t)
    /\ \A t \in LockCallers : (pc[t] = "start") ~> Over(t)

C26_Witness ==
    /\ \A t \in LockCallers : Over(t)
    /\ lock = 0
    /\ \E t \in LockCallers : LegacyFile(raw[t]) /\ Decrypts(file)
    /\ \E t \in LockCallers : pc[t] = "raised"

====
